---- MODULE Spec2Model ----
(***************************************************************************)
(* Model of the NL->SQL chat pipeline of chatbot_app.py: the loading of    *)
(* the dataset, the safety filter, the fallback query bank, the SQL        *)
(* generator, the row-limit rewrite of run_sql, the chart selection, the   *)
(* summary of a result and the chat handler of main().                     *)
(*                                                                         *)
(* A Python str is a sequence of characters; a character is a one-letter   *)
(* string.  A non-ASCII character is written as its code point, e.g. the   *)
(* one character U+6708 is the string "U+6708" and the backtick is "U+0060". *)
(***************************************************************************)
EXTENDS Integers, Sequences, FiniteSets, TLC

(***************************************************************************)
(* Bounds of the model.                                                    *)
(***************************************************************************)
\* number of user messages processed in one session
MaxTurns == 2
\* number of fragments concatenated into an input string of the pure functions
MaxParts == 2

\* the largest number of columns of a result handed to auto_chart and
\* summarize_result on their own
MaxCols == 3

(***************************************************************************)
(* Python str operations used by the program.                              *)
(***************************************************************************)
UPPER ==
    <<"A", "B", "C", "D", "E", "F", "G", "H", "I", "J", "K", "L", "M",
      "N", "O", "P", "Q", "R", "S", "T", "U", "V", "W", "X", "Y", "Z">>

LOWER ==
    <<"a", "b", "c", "d", "e", "f", "g", "h", "i", "j", "k", "l", "m",
      "n", "o", "p", "q", "r", "s", "t", "u", "v", "w", "x", "y", "z">>

DIGITS ==
    <<"0", "1", "2", "3", "4", "5", "6", "7", "8", "9">>

\* the lower-case letter of each upper-case letter
LowerOf ==
    [c \in {UPPER[i] : i \in 1..Len(UPPER)} |->
        LOWER[CHOOSE i \in 1..Len(UPPER) : UPPER[i] = c]]

\* str.lower() on one character
lower_char(c) ==
    IF c \in DOMAIN LowerOf THEN LowerOf[c] ELSE c

\* str.lower()
lower(s) == [i \in 1..Len(s) |-> lower_char(s[i])]

\* the whitespace of str.strip() and of the regular expression class \s
IsSpace(c) == c \in {" ", "\n", "\t"}

RECURSIVE lstrip(_)
lstrip(s) ==
    IF s # <<>> /\ IsSpace(Head(s)) THEN lstrip(Tail(s)) ELSE s

RECURSIVE rstrip(_)
rstrip(s) ==
    IF s # <<>> /\ IsSpace(s[Len(s)])
    THEN rstrip(SubSeq(s, 1, Len(s) - 1))
    ELSE s

\* str.strip()
strip(s) == lstrip(rstrip(s))

\* str.rstrip(chars) for a one-character set
RECURSIVE rstrip_char(_, _)
rstrip_char(s, c) ==
    IF s # <<>> /\ s[Len(s)] = c
    THEN rstrip_char(SubSeq(s, 1, Len(s) - 1), c)
    ELSE s

\* str.startswith(p)
startswith(s, p) ==
    Len(p) <= Len(s) /\ \A k \in 1..Len(p) : s[k] = p[k]

\* str.endswith(p)
endswith(s, p) ==
    Len(p) <= Len(s) /\ \A k \in 1..Len(p) : s[Len(s) - Len(p) + k] = p[k]

\* the Python expression `sub in s`
contains(sub, s) ==
    \/ sub = <<>>
    \/ \E i \in 1..(Len(s) - Len(sub) + 1) :
          s[i] = sub[1] /\ SubSeq(s, i, i + Len(sub) - 1) = sub

\* any(word in s for word in words)
any_in(words, s) ==
    \E k \in 1..Len(words) : contains(words[k], s)

\* re.sub(fence + r'\s*', '', s): every leftmost non-overlapping occurrence of
\* the literal fence, with the whitespace that follows it, is removed
RECURSIVE re_sub_fence(_, _)
re_sub_fence(fence, s) ==
    IF s = <<>> THEN <<>>
    ELSE IF startswith(s, fence)
         THEN re_sub_fence(fence, lstrip(SubSeq(s, Len(fence) + 1, Len(s))))
         ELSE <<Head(s)>> \o re_sub_fence(fence, Tail(s))

(***************************************************************************)
(* String literals of the program.                                         *)
(***************************************************************************)
KW_SELECT ==
    <<"s", "e", "l", "e", "c", "t">>

KW_LIMIT ==
    <<"l", "i", "m", "i", "t">>

SEMICOLON ==
    <<";">>

FENCE_SQL ==
    <<"U+0060", "U+0060", "U+0060", "s", "q", "l">>

FENCE ==
    <<"U+0060", "U+0060", "U+0060">>

LIMIT_SUFFIX ==
    <<" ", "L", "I", "M", "I", "T", " ", "5", "0", "0", "0">>

FALLBACK_MONTH_CATEGORY ==
    <<"S", "E", "L", "E", "C", "T", " ", "m", "o", "n", "t", "h", ",", " ", "c", "a",
    "t", "e", "g", "o", "r", "y", ",", " ", "S", "U", "M", "(", "r", "e", "v", "e",
    "n", "u", "e", ")", " ", "A", "S", " ", "t", "o", "t", "a", "l", "_", "r", "e",
    "v", "e", "n", "u", "e", "\n", "F", "R", "O", "M", " ", "s", "a", "l", "e", "s",
    "\n", "G", "R", "O", "U", "P", " ", "B", "Y", " ", "m", "o", "n", "t", "h", ",",
    " ", "c", "a", "t", "e", "g", "o", "r", "y", "\n", "O", "R", "D", "E", "R", " ",
    "B", "Y", " ", "m", "o", "n", "t", "h", ",", " ", "c", "a", "t", "e", "g", "o",
    "r", "y">>

FALLBACK_CHANNEL ==
    <<"S", "E", "L", "E", "C", "T", " ", "s", "a", "l", "e", "s", "_", "c", "h", "a",
    "n", "n", "e", "l", ",", " ", "S", "U", "M", "(", "r", "e", "v", "e", "n", "u",
    "e", ")", " ", "A", "S", " ", "t", "o", "t", "a", "l", "_", "r", "e", "v", "e",
    "n", "u", "e", "\n", "F", "R", "O", "M", " ", "s", "a", "l", "e", "s", "\n", "G",
    "R", "O", "U", "P", " ", "B", "Y", " ", "s", "a", "l", "e", "s", "_", "c", "h",
    "a", "n", "n", "e", "l", "\n", "O", "R", "D", "E", "R", " ", "B", "Y", " ", "t",
    "o", "t", "a", "l", "_", "r", "e", "v", "e", "n", "u", "e", " ", "D", "E", "S",
    "C">>

FALLBACK_REGION ==
    <<"S", "E", "L", "E", "C", "T", " ", "r", "e", "g", "i", "o", "n", ",", " ", "S",
    "U", "M", "(", "r", "e", "v", "e", "n", "u", "e", ")", " ", "A", "S", " ", "t",
    "o", "t", "a", "l", "_", "r", "e", "v", "e", "n", "u", "e", "\n", "F", "R", "O",
    "M", " ", "s", "a", "l", "e", "s", "\n", "G", "R", "O", "U", "P", " ", "B", "Y",
    " ", "r", "e", "g", "i", "o", "n", "\n", "O", "R", "D", "E", "R", " ", "B", "Y",
    " ", "t", "o", "t", "a", "l", "_", "r", "e", "v", "e", "n", "u", "e", " ", "D",
    "E", "S", "C">>

FALLBACK_TOTAL ==
    <<"S", "E", "L", "E", "C", "T", " ", "S", "U", "M", "(", "r", "e", "v", "e", "n",
    "u", "e", ")", " ", "A", "S", " ", "t", "o", "t", "a", "l", "_", "r", "e", "v",
    "e", "n", "u", "e", " ", "F", "R", "O", "M", " ", "s", "a", "l", "e", "s">>

BLOCKED_KEYWORDS ==
    <<<<"i", "n", "s", "e", "r", "t">>,
      <<"u", "p", "d", "a", "t", "e">>,
      <<"d", "e", "l", "e", "t", "e">>,
      <<"d", "r", "o", "p">>,
      <<"a", "l", "t", "e", "r">>,
      <<"c", "r", "e", "a", "t", "e">>,
      <<"r", "e", "p", "l", "a", "c", "e">>,
      <<"a", "t", "t", "a", "c", "h">>,
      <<"c", "o", "p", "y">>,
      <<"p", "r", "a", "g", "m", "a">>,
      <<"s", "c", "r", "i", "p", "t">>,
      <<"c", "a", "l", "l">>,
      <<";">>>>

TEMPORAL_WORDS ==
    <<<<"U+6708">>,
      <<"U+30AB", "U+30C6", "U+30B4", "U+30EA">>,
      <<"c", "a", "t", "e", "g", "o", "r", "y">>,
      <<"m", "o", "n", "t", "h">>>>

CHANNEL_WORDS ==
    <<<<"U+30C1", "U+30E3", "U+30CD", "U+30EB">>,
      <<"c", "h", "a", "n", "n", "e", "l">>>>

REGION_WORDS ==
    <<<<"U+5730", "U+57DF">>,
      <<"r", "e", "g", "i", "o", "n">>>>

(***************************************************************************)
(* Pure functions of chatbot_app.py.                                       *)
(***************************************************************************)

\* is_safe_sql with the denylist matched against the text as written, not
\* against the lower-cased text
is_safe_sql_case_sensitive(sql) ==
    IF any_in(BLOCKED_KEYWORDS, strip(sql)) THEN FALSE
    ELSE IF ~startswith(strip(lower(sql)), KW_SELECT) THEN FALSE
    ELSE IF contains(SEMICOLON, sql) THEN FALSE
    ELSE TRUE

\* is_safe_sql(sql) -> bool
is_safe_sql(sql) ==
    LET sql_lower == strip(lower(sql))
    IN  IF any_in(BLOCKED_KEYWORDS, sql_lower) THEN FALSE
        ELSE IF ~startswith(sql_lower, KW_SELECT) THEN FALSE
        ELSE IF contains(SEMICOLON, sql) THEN FALSE
        ELSE TRUE

\* fallback_sql with the channel group tested before the temporal group
fallback_sql_channel_first(user_msg) ==
    LET branch(msg_lower) ==
        IF any_in(CHANNEL_WORDS, msg_lower) THEN FALLBACK_CHANNEL
        ELSE IF any_in(TEMPORAL_WORDS, msg_lower) THEN FALLBACK_MONTH_CATEGORY
        ELSE IF any_in(REGION_WORDS, msg_lower) THEN FALLBACK_REGION
        ELSE FALLBACK_TOTAL
    IN  branch(lower(user_msg))

\* fallback_sql whose grand-total query ends with a statement separator
fallback_sql_terminated(user_msg) ==
    LET branch(msg_lower) ==
        IF any_in(TEMPORAL_WORDS, msg_lower) THEN FALLBACK_MONTH_CATEGORY
        ELSE IF any_in(CHANNEL_WORDS, msg_lower) THEN FALLBACK_CHANNEL
        ELSE IF any_in(REGION_WORDS, msg_lower) THEN FALLBACK_REGION
        ELSE FALLBACK_TOTAL \o SEMICOLON
    IN  branch(lower(user_msg))

\* fallback_sql whose default is the by-region query
fallback_sql_region_default(user_msg) ==
    LET branch(msg_lower) ==
        IF any_in(TEMPORAL_WORDS, msg_lower) THEN FALLBACK_MONTH_CATEGORY
        ELSE IF any_in(CHANNEL_WORDS, msg_lower) THEN FALLBACK_CHANNEL
        ELSE FALLBACK_REGION
    IN  branch(lower(user_msg))

\* fallback_sql(user_msg) -> str
fallback_sql(user_msg) ==
    LET branch(msg_lower) ==
        IF any_in(TEMPORAL_WORDS, msg_lower) THEN FALLBACK_MONTH_CATEGORY
        ELSE IF any_in(CHANNEL_WORDS, msg_lower) THEN FALLBACK_CHANNEL
        ELSE IF any_in(REGION_WORDS, msg_lower) THEN FALLBACK_REGION
        ELSE FALLBACK_TOTAL
    IN  branch(lower(user_msg))

\* the first statement of run_sql: the text that run_sql hands to con.execute
add_limit(sql) ==
    IF ~contains(KW_LIMIT, lower(sql))
    THEN rstrip_char(sql, ";") \o LIMIT_SUFFIX
    ELSE sql

\* the tail of the try block of generate_sql: the completion text is stripped, the
\* code block markers are removed and the text is stripped again
strip_code_block(content) ==
    strip(re_sub_fence(FENCE, re_sub_fence(FENCE_SQL, strip(content))))

(***************************************************************************)
(* The row-limit clause as the query executor, con.execute(sql), reads it: *)
(* DuckDB is outside the repository.  A query that ends with a row-limit   *)
(* clause, LIMIT n, returns at most n rows.                                *)
(***************************************************************************)
DigitValue ==
    [c \in {DIGITS[i] : i \in 1..Len(DIGITS)} |->
        (CHOOSE i \in 1..Len(DIGITS) : DIGITS[i] = c) - 1]

is_digit(c) == c \in DOMAIN DigitValue

digit_value(c) == DigitValue[c]

RECURSIVE trailing_digits(_)
trailing_digits(s) ==
    IF s # <<>> /\ is_digit(s[Len(s)])
    THEN trailing_digits(SubSeq(s, 1, Len(s) - 1)) \o <<s[Len(s)]>>
    ELSE <<>>

RECURSIVE int_of(_)
int_of(d) ==
    IF d = <<>> THEN 0
    ELSE 10 * int_of(SubSeq(d, 1, Len(d) - 1)) + digit_value(d[Len(d)])

\* the text before the number that ends the query, without trailing blanks
before_number(sql) ==
    LET t == rstrip(lower(sql))
    IN  rstrip(SubSeq(t, 1, Len(t) - Len(trailing_digits(t))))

\* the query ends with the clause LIMIT n (any letter case)
has_limit_clause(sql) ==
    LET t  == rstrip(lower(sql))
        d  == trailing_digits(t)
        kw == before_number(sql)
    IN  /\ d # <<>>
        /\ Len(kw) < Len(t) - Len(d)
        /\ endswith(kw, KW_LIMIT)
        /\ (Len(kw) = Len(KW_LIMIT) \/ IsSpace(kw[Len(kw) - Len(KW_LIMIT)]))

\* the n of the clause LIMIT n that ends the query
limit_value(sql) == int_of(trailing_digits(rstrip(lower(sql))))

(***************************************************************************)
(* The completion capability, client.chat.completions.create(...): it      *)
(* raises, returns a response without choices, returns a choice whose      *)
(* content is None, or returns a text.                                     *)
(***************************************************************************)
\* a statement the safety filter rejects
TEXT_DROP ==
    <<"D", "R", "O", "P", " ", "T", "A", "B", "L", "E", " ", "s", "a", "l", "e", "s">>

\* a query with its own row-limit clause
TEXT_BIG_LIMIT ==
    <<"S", "E", "L", "E", "C", "T", " ", "*", " ", "F", "R", "O", "M", " ", "s", "a",
    "l", "e", "s", " ", "L", "I", "M", "I", "T", " ", "9", "9", "9", "9">>

\* a query with no row-limit clause whose alias contains the letters limit
TEXT_UNLIMITED ==
    <<"S", "E", "L", "E", "C", "T", " ", "u", "n", "i", "t", "s", " ", "A", "S", " ",
    "u", "n", "l", "i", "m", "i", "t", "e", "d", " ", "F", "R", "O", "M", " ", "s",
    "a", "l", "e", "s">>

\* a query without a row-limit clause, in a Markdown code block
TEXT_FENCED ==
    <<"U+0060", "U+0060", "U+0060", "s", "q", "l", "\n", "S", "E", "L", "E", "C", "T",
    " ", "r", "e", "g", "i", "o", "n", " ", "F", "R", "O", "M", " ", "s", "a", "l",
    "e", "s", "\n", "U+0060", "U+0060", "U+0060">>

CompletionTexts ==
    {TEXT_DROP, TEXT_BIG_LIMIT, TEXT_UNLIMITED, TEXT_FENCED}

NOT_CALLED == [kind |-> "not_called", content |-> <<>>]

Completions ==
    {[kind |-> "content", content |-> t] : t \in CompletionTexts}
        \cup {[kind |-> k, content |-> <<>>] :
                k \in {"api_error", "no_choices", "none_content"}}

\* generate_sql without the except clause: a failure of the completion
\* leaves the function as an exception
generate_sql_uncaught(provider, c, user_msg) ==
    IF provider = "openai" /\ c.kind = "content"
    THEN [sql |-> strip_code_block(c.content), errors |-> <<>>, raised |-> FALSE]
    ELSE [sql |-> <<>>, errors |-> <<>>, raised |-> TRUE]

\* generate_sql whose except clause returns the grand-total query for every
\* message
generate_sql_fixed_fallback(provider, c, user_msg) ==
    IF provider = "openai" /\ c.kind = "content"
    THEN [sql |-> strip_code_block(c.content), errors |-> <<>>, raised |-> FALSE]
    ELSE [sql    |-> FALLBACK_TOTAL,
          errors |-> <<"LLM API Error">>,
          raised |-> FALSE]

\* generate_sql whose except clause makes no st.error call
generate_sql_silent(provider, c, user_msg) ==
    IF provider = "openai" /\ c.kind = "content"
    THEN [sql |-> strip_code_block(c.content), errors |-> <<>>, raised |-> FALSE]
    ELSE [sql |-> fallback_sql(user_msg), errors |-> <<>>, raised |-> FALSE]

\* generate_sql(user_msg) with the completion c: the returned text, the
\* st.error calls it makes, and whether an exception leaves the function
generate_sql(provider, c, user_msg) ==
    IF provider = "openai" /\ c.kind = "content"
    THEN [sql |-> strip_code_block(c.content), errors |-> <<>>, raised |-> FALSE]
    ELSE [sql    |-> fallback_sql(user_msg),
          errors |-> <<"LLM API Error">>,
          raised |-> FALSE]

(***************************************************************************)
(* Results.  A DataFrame is its column names, its number of rows and its   *)
(* numeric cells: in every numeric column the cell of row i is             *)
(* base + step * (i - 1).                                                  *)
(***************************************************************************)
COL_DATE == <<"d", "a", "t", "e">>

COL_MONTH == <<"m", "o", "n", "t", "h">>

COL_CATEGORY == <<"c", "a", "t", "e", "g", "o", "r", "y">>

COL_UNITS == <<"u", "n", "i", "t", "s">>

COL_UNIT_PRICE == <<"u", "n", "i", "t", "_", "p", "r", "i", "c", "e">>

COL_REGION == <<"r", "e", "g", "i", "o", "n">>

COL_SALES_CHANNEL == <<"s", "a", "l", "e", "s", "_", "c", "h", "a", "n", "n", "e", "l">>

COL_CUSTOMER_SEGMENT ==
    <<"c", "u", "s", "t", "o", "m", "e", "r", "_", "s", "e", "g", "m", "e", "n", "t">>

COL_REVENUE == <<"r", "e", "v", "e", "n", "u", "e">>

COL_TOTAL_REVENUE == <<"t", "o", "t", "a", "l", "_", "r", "e", "v", "e", "n", "u", "e">>

COL_TOTAL_UNITS == <<"t", "o", "t", "a", "l", "_", "u", "n", "i", "t", "s">>

COL_COUNT == <<"c", "o", "u", "n", "t">>

COL_UNLIMITED == <<"u", "n", "l", "i", "m", "i", "t", "e", "d">>

COL_MIXED_CASE == <<"T", "o", "t", "a", "l", "_", "R", "e", "v", "e", "n", "u", "e">>

KW_REVENUE == <<"r", "e", "v", "e", "n", "u", "e">>

KW_UNITS == <<"u", "n", "i", "t", "s">>

\* the columns of the sales view, in the order of its SELECT list
SALES_COLUMNS ==
    <<COL_DATE, COL_MONTH, COL_CATEGORY, COL_UNITS, COL_UNIT_PRICE, COL_REGION,
      COL_SALES_CHANNEL, COL_CUSTOMER_SEGMENT, COL_REVENUE>>

\* the columns select_dtypes(include=['number']) keeps: quantities, prices,
\* amounts and the aggregates over them
NUMERIC_COLUMNS ==
    {COL_UNITS, COL_UNIT_PRICE, COL_REVENUE, COL_TOTAL_REVENUE, COL_TOTAL_UNITS,
     COL_COUNT, COL_UNLIMITED, COL_MIXED_CASE}

\* df.empty
empty(df) == df.rows = 0 \/ df.columns = <<>>

\* the set of the elements of a list
Range(s) == {s[i] : i \in DOMAIN s}

\* the cell of row i in a numeric column
cell(df, i) == df.base + df.step * (i - 1)

\* df.head(n)[col].sum() for a numeric column col
RECURSIVE head_sum(_, _)
head_sum(df, n) ==
    IF n = 0 THEN 0 ELSE head_sum(df, n - 1) + cell(df, n)

(***************************************************************************)
(* The executor, con.execute(sql).df(), on the queries the session runs.   *)
(***************************************************************************)
\* the queries the session runs: the columns of the result, and whether the
\* query is one aggregate over the whole table, which returns exactly one row
QUERIES ==
    <<[select    |-> FALLBACK_MONTH_CATEGORY,
       columns   |-> <<COL_MONTH, COL_CATEGORY, COL_TOTAL_REVENUE>>,
       aggregate |-> FALSE],
      [select    |-> FALLBACK_CHANNEL,
       columns   |-> <<COL_SALES_CHANNEL, COL_TOTAL_REVENUE>>,
       aggregate |-> FALSE],
      [select    |-> FALLBACK_REGION,
       columns   |-> <<COL_REGION, COL_TOTAL_REVENUE>>,
       aggregate |-> FALSE],
      [select    |-> FALLBACK_TOTAL,
       columns   |-> <<COL_TOTAL_REVENUE>>,
       aggregate |-> TRUE],
      [select    |-> TEXT_BIG_LIMIT,
       columns   |-> SALES_COLUMNS,
       aggregate |-> FALSE],
      [select    |-> TEXT_UNLIMITED,
       columns   |-> <<COL_UNLIMITED>>,
       aggregate |-> FALSE],
      [select    |-> strip_code_block(TEXT_FENCED),
       columns   |-> <<COL_REGION>>,
       aggregate |-> FALSE]>>

\* the entries of QUERIES the query sql starts with
known_query(sql) == SelectSeq(QUERIES, LAMBDA e : startswith(sql, e.select))

\* the columns of the result of sql; no column for a statement that returns
\* no table
result_columns(sql) ==
    LET known == known_query(sql)
    IN  IF known = <<>> THEN <<>> ELSE known[1].columns

\* what the executor may do with one query: raise, or find `rows` rows before
\* any row-limit clause is applied: no row, or more rows than LIMIT 5000 lets
\* through
NaturalRows == {0, 6000}

ExecOutcomes ==
    {[raised |-> TRUE, rows |-> 0]}
        \cup {[raised |-> FALSE, rows |-> n] : n \in NaturalRows}

\* the number of rows of the table con.execute(sql).df() returns
rows_returned(sql, natural) ==
    LET known == known_query(sql)
        found == IF known # <<>> /\ known[1].aggregate THEN 1 ELSE natural
    IN  IF has_limit_clause(sql) /\ limit_value(sql) < found
        THEN limit_value(sql)
        ELSE found

\* run_sql(con, sql): the query handed to the executor, whether run_sql
\* raised, and the returned DataFrame
run_sql(sql, o) ==
    LET q == add_limit(sql)
    IN  [query  |-> q,
         raised |-> o.raised,
         df     |-> [columns |-> result_columns(q),
                     rows    |-> IF o.raised THEN 0 ELSE rows_returned(q, o.rows),
                     base    |-> 1,
                     step    |-> 0]]

(***************************************************************************)
(* auto_chart(df): the figure handed to st.plotly_chart, if any.           *)
(***************************************************************************)
\* no column, and no figure
NONE == <<>>

NO_CHART == [kind |-> "none", x |-> NONE, y |-> NONE, color |-> NONE]

dim_candidates ==
    <<COL_CATEGORY, COL_SALES_CHANNEL, COL_REGION, COL_CUSTOMER_SEGMENT>>

val_candidates ==
    <<COL_TOTAL_REVENUE, COL_TOTAL_UNITS, COL_REVENUE, COL_UNITS, COL_COUNT>>

\* next_value_col that takes the last candidate of the result, not the first
next_value_col_last(colset) ==
    LET found == SelectSeq(val_candidates,
                           LAMBDA v : v \in colset /\ v # COL_MONTH)
    IN  IF found = <<>> THEN NONE ELSE found[Len(found)]

\* next((v for v in val_candidates if v in colset and v != 'month'), None)
next_value_col(colset) ==
    LET found == SelectSeq(val_candidates,
                           LAMBDA v : v \in colset /\ v # COL_MONTH)
    IN  IF found = <<>> THEN NONE ELSE found[1]

\* auto_chart that tests the month rule before the other two
auto_chart_time_first(df) ==
    IF empty(df) THEN NO_CHART
    ELSE
    LET cols      == df.columns
        colset    == Range(cols)
        value_col == next_value_col(colset)
    IN  IF COL_MONTH \in colset /\ value_col # NONE
        THEN [kind |-> "line", x |-> COL_MONTH, y |-> value_col, color |-> NONE]
        ELSE IF {COL_MONTH, COL_CATEGORY, COL_TOTAL_REVENUE} \subseteq colset
        THEN [kind |-> "line", x |-> COL_MONTH, y |-> COL_TOTAL_REVENUE,
              color |-> COL_CATEGORY]
        ELSE IF /\ Len(cols) = 2
                /\ cols[1] \in Range(dim_candidates)
                /\ cols[2] \in Range(val_candidates)
        THEN [kind |-> "bar", x |-> cols[1], y |-> cols[2], color |-> NONE]
        ELSE NO_CHART

\* auto_chart whose bar rule takes the two columns in either order
auto_chart_unordered(df) ==
    IF empty(df) THEN NO_CHART
    ELSE
    LET cols      == df.columns
        colset    == Range(cols)
        value_col == next_value_col(colset)
    IN  IF {COL_MONTH, COL_CATEGORY, COL_TOTAL_REVENUE} \subseteq colset
        THEN [kind |-> "line", x |-> COL_MONTH, y |-> COL_TOTAL_REVENUE,
              color |-> COL_CATEGORY]
        ELSE IF /\ Len(cols) = 2
                /\ cols[1] \in Range(dim_candidates)
                /\ cols[2] \in Range(val_candidates)
        THEN [kind |-> "bar", x |-> cols[1], y |-> cols[2], color |-> NONE]
        ELSE IF /\ Len(cols) = 2
                /\ cols[2] \in Range(dim_candidates)
                /\ cols[1] \in Range(val_candidates)
        THEN [kind |-> "bar", x |-> cols[2], y |-> cols[1], color |-> NONE]
        ELSE IF COL_MONTH \in colset /\ value_col # NONE
        THEN [kind |-> "line", x |-> COL_MONTH, y |-> value_col, color |-> NONE]
        ELSE NO_CHART

auto_chart(df) ==
    IF empty(df) THEN NO_CHART
    ELSE
    LET cols      == df.columns
        colset    == Range(cols)
        value_col == next_value_col(colset)
    IN  IF {COL_MONTH, COL_CATEGORY, COL_TOTAL_REVENUE} \subseteq colset
        THEN [kind |-> "line", x |-> COL_MONTH, y |-> COL_TOTAL_REVENUE,
              color |-> COL_CATEGORY]
        ELSE IF /\ Len(cols) = 2
                /\ cols[1] \in Range(dim_candidates)
                /\ cols[2] \in Range(val_candidates)
        THEN [kind |-> "bar", x |-> cols[1], y |-> cols[2], color |-> NONE]
        ELSE IF COL_MONTH \in colset /\ value_col # NONE
        THEN [kind |-> "line", x |-> COL_MONTH, y |-> value_col, color |-> NONE]
        ELSE NO_CHART

(***************************************************************************)
(* summarize_result(df): the parts of the returned text.  found is FALSE   *)
(* for the fixed text of an empty result; stats holds the statistics       *)
(* clause, if any: its style (the format of the clause), the sum and the   *)
(* mean as the fraction sum / count; top holds the n of the note           *)
(* "(the first n rows are shown)", if any.                                 *)
(***************************************************************************)
HEAD_ROWS == 50

NO_RESULTS == [found |-> FALSE, total_rows |-> 0, stats |-> <<>>, top |-> <<>>]

\* summarize_result that reports the number of rows it read
summarize_result_head_count(df) ==
    IF empty(df) THEN NO_RESULTS
    ELSE
    LET rows         == IF df.rows < HEAD_ROWS THEN df.rows ELSE HEAD_ROWS
        total_rows   == rows
        numeric_cols == SelectSeq(df.columns, LAMBDA c : c \in NUMERIC_COLUMNS)
        main_col     == numeric_cols[1]
        total        == head_sum(df, rows)
        avg          == [sum |-> total, count |-> rows]
    IN  [found      |-> TRUE,
         total_rows |-> total_rows,
         stats      |->
            IF numeric_cols = <<>> THEN <<>>
            ELSE IF contains(KW_REVENUE, lower(main_col))
            THEN <<[style |-> "currency", total |-> total, avg |-> avg]>>
            ELSE IF contains(KW_UNITS, lower(main_col))
            THEN <<[style |-> "count", total |-> total, avg |-> avg]>>
            ELSE <<>>,
         top        |-> IF df.rows > rows THEN <<rows>> ELSE <<>>]

\* summarize_result whose statistics read every row of df
summarize_result_all_rows(df) ==
    IF empty(df) THEN NO_RESULTS
    ELSE
    LET rows         == IF df.rows < HEAD_ROWS THEN df.rows ELSE HEAD_ROWS
        total_rows   == df.rows
        numeric_cols == SelectSeq(df.columns, LAMBDA c : c \in NUMERIC_COLUMNS)
        main_col     == numeric_cols[1]
        total        == head_sum(df, df.rows)
        avg          == [sum |-> total, count |-> df.rows]
    IN  [found      |-> TRUE,
         total_rows |-> total_rows,
         stats      |->
            IF numeric_cols = <<>> THEN <<>>
            ELSE IF contains(KW_REVENUE, lower(main_col))
            THEN <<[style |-> "currency", total |-> total, avg |-> avg]>>
            ELSE IF contains(KW_UNITS, lower(main_col))
            THEN <<[style |-> "count", total |-> total, avg |-> avg]>>
            ELSE <<>>,
         top        |-> IF df.rows > rows THEN <<rows>> ELSE <<>>]

summarize_result(df) ==
    IF empty(df) THEN NO_RESULTS
    ELSE
    LET rows         == IF df.rows < HEAD_ROWS THEN df.rows ELSE HEAD_ROWS
        total_rows   == df.rows
        numeric_cols == SelectSeq(df.columns, LAMBDA c : c \in NUMERIC_COLUMNS)
        main_col     == numeric_cols[1]
        total        == head_sum(df, rows)
        avg          == [sum |-> total, count |-> rows]
    IN  [found      |-> TRUE,
         total_rows |-> total_rows,
         stats      |->
            IF numeric_cols = <<>> THEN <<>>
            ELSE IF contains(KW_REVENUE, lower(main_col))
            THEN <<[style |-> "currency", total |-> total, avg |-> avg]>>
            ELSE IF contains(KW_UNITS, lower(main_col))
            THEN <<[style |-> "count", total |-> total, avg |-> avg]>>
            ELSE <<>>,
         top        |-> IF total_rows > rows THEN <<rows>> ELSE <<>>]

(***************************************************************************)
(* The user messages of the session.                                       *)
(***************************************************************************)
PROMPT_MONTH_CHANNEL ==
    <<"m", "o", "n", "t", "h", " ", "c", "h", "a", "n", "n", "e", "l">>

PROMPT_OTHER ==
    <<"h", "e", "l", "l", "o">>

Prompts == {PROMPT_MONTH_CHANNEL, PROMPT_OTHER}

(***************************************************************************)
(* The chat handler of main().  One script run processes one user message: *)
(* the run is cut at the two calls that leave the program, the completion  *)
(* call and the executor call.                                             *)
(***************************************************************************)
VARIABLES
    LLM_PROVIDER,   \* set at import time from the installed client library
    csv_file,       \* the file data/sample_sales.csv, as the session finds it
    messages,       \* st.session_state.messages, the conversation log
    pc,             \* position of the script run
    prompt,         \* the user message of the run
    completion,     \* what the completion call of the run did
    candidate,      \* the value generate_sql returned in the run
    generated_sql,  \* the local generated_sql of main
    executed,       \* the calls of con.execute in the run, in order
    st_errors,      \* the st.error calls of the run, in order
    crashed,        \* an exception left main()
    fn,             \* the pure function applied (pure-function runs only)
    fn_arg,         \* its argument
    fn_ret          \* its result

vars ==
    <<LLM_PROVIDER, csv_file, messages, pc, prompt, completion, candidate,
      generated_sql, executed, st_errors, crashed, fn, fn_arg, fn_ret>>

\* the texts of the assistant turns (the program writes them in Japanese)
CONTENT_EMPTY == "no results were found; try another question"

CONTENT_DONE == "the analysis is complete"

CONTENT_FALLBACK == "showing the results of the fallback query"

CONTENT_NO_RESULT == "sorry, the results could not be obtained"

CONTENT_SYSTEM_ERROR == "sorry, a system error occurred"

\* the texts of the st.error calls
ERR_LLM == "LLM API Error"

ERR_EXEC == "an error occurred"

ERR_FALLBACK == "the fallback failed too"

ERR_NOT_FOUND == "required file not found"

ERR_ENSURE_FILE == "please ensure the CSV file exists"

ERR_MISSING_COLUMNS == "missing required columns"

ERR_REQUIRED_COLUMNS == "required columns"

ERR_LOADING == "error loading CSV file"

REQUIRED_COLUMNS ==
    <<COL_DATE, COL_CATEGORY, COL_UNITS, COL_UNIT_PRICE, COL_REGION,
      COL_SALES_CHANNEL, COL_CUSTOMER_SEGMENT, COL_REVENUE>>

\* the file as the session may find it: absent, not a table pandas can load,
\* or a table with these columns
CsvFiles ==
    {[exists |-> FALSE, readable |-> FALSE, columns |-> {}],
     [exists |-> TRUE, readable |-> FALSE, columns |-> {}],
     [exists |-> TRUE, readable |-> TRUE, columns |-> Range(REQUIRED_COLUMNS)],
     [exists   |-> TRUE,
      readable |-> TRUE,
      columns  |-> Range(REQUIRED_COLUMNS) \cup {COL_MONTH}],
     [exists   |-> TRUE,
      readable |-> TRUE,
      columns  |-> Range(REQUIRED_COLUMNS) \ {COL_REVENUE}],
     [exists |-> TRUE, readable |-> TRUE, columns |-> {COL_DATE}]}

\* load_sales_data without the validation of the columns
load_sales_data_unvalidated(csv, stop_caught) ==
    IF ~csv.exists
    THEN [stopped |-> TRUE, errors |-> <<ERR_NOT_FOUND, ERR_ENSURE_FILE>>]
    ELSE IF ~csv.readable
    THEN [stopped |-> TRUE, errors |-> <<ERR_LOADING>>]
    ELSE [stopped |-> FALSE, errors |-> <<>>]

\* load_sales_data(): whether st.stop() ended the script run, and the
\* st.error calls.  stop_caught: the exception st.stop() raises inside the
\* try block is one that `except Exception` catches, and the handler stops
\* the run again
load_sales_data(csv, stop_caught) ==
    IF ~csv.exists
    THEN [stopped |-> TRUE, errors |-> <<ERR_NOT_FOUND, ERR_ENSURE_FILE>>]
    ELSE IF ~csv.readable
    THEN [stopped |-> TRUE, errors |-> <<ERR_LOADING>>]
    ELSE LET missing_cols == Range(REQUIRED_COLUMNS) \ csv.columns
         IN  IF missing_cols # {}
             THEN [stopped |-> TRUE,
                   errors  |-> <<ERR_MISSING_COLUMNS, ERR_REQUIRED_COLUMNS>>
                              \o (IF stop_caught THEN <<ERR_LOADING>> ELSE <<>>)]
             ELSE [stopped |-> FALSE, errors |-> <<>>]

Init ==
    /\ LLM_PROVIDER \in {"openai", "anthropic"}
    /\ csv_file \in CsvFiles
    /\ messages = <<>>
    /\ pc = "start"
    /\ prompt = <<>>
    /\ completion = NOT_CALLED
    /\ candidate = <<>>
    /\ generated_sql = <<>>
    /\ executed = <<>>
    /\ st_errors = <<>>
    /\ crashed = FALSE
    /\ fn = "main"
    /\ fn_arg = <<>>
    /\ fn_ret = <<>>

\* the first script run of the session up to st.chat_input: the session
\* state is initialised and load_sales_data() returns the data or stops the
\* run
LoadSalesData ==
    /\ pc = "start"
    /\ \E stop_caught \in BOOLEAN :
        \E l \in {load_sales_data(csv_file, stop_caught)} :
            /\ st_errors' = l.errors
            /\ pc' = IF l.stopped THEN "stopped" ELSE "idle"
    /\ UNCHANGED <<LLM_PROVIDER, csv_file, messages, prompt, completion, candidate,
                   generated_sql, executed, crashed, fn, fn_arg, fn_ret>>

\* st.chat_input returns a message in a script run that has loaded the data
\* again: the user turn is appended and the run goes on with fresh locals
Submit ==
    /\ pc = "idle"
    /\ ~crashed
    /\ Len(messages) < 2 * MaxTurns
    /\ \E p \in Prompts :
        /\ prompt' = p
        /\ messages' = Append(messages, [role |-> "user", content |-> p])
    /\ pc' = "generate"
    /\ completion' = NOT_CALLED
    /\ candidate' = <<>>
    /\ generated_sql' = <<>>
    /\ executed' = <<>>
    /\ st_errors' = <<>>
    /\ UNCHANGED <<LLM_PROVIDER, csv_file, crashed, fn, fn_arg, fn_ret>>

\* GenerateSql without the safety check: the generated text is executed as it
\* is
GenerateSql_unchecked ==
    /\ pc = "generate"
    /\ \E c \in (IF LLM_PROVIDER = "openai" THEN Completions ELSE {NOT_CALLED}) :
        \E g \in {generate_sql(LLM_PROVIDER, c, prompt)} :
            /\ completion' = c
            /\ st_errors' = st_errors \o g.errors
            /\ candidate' = g.sql
            /\ generated_sql' = g.sql
            /\ pc' = "execute"
    /\ UNCHANGED <<LLM_PROVIDER, csv_file, messages, prompt, executed, crashed,
                   fn, fn_arg, fn_ret>>

\* generate_sql(prompt), the safety check and the substitution of the
\* fallback query
GenerateSql ==
    /\ pc = "generate"
    /\ \E c \in (IF LLM_PROVIDER = "openai" THEN Completions ELSE {NOT_CALLED}) :
        \E g \in {generate_sql(LLM_PROVIDER, c, prompt)} :
            /\ completion' = c
            /\ st_errors' = st_errors \o g.errors
            /\ IF g.raised
               THEN /\ crashed' = TRUE
                    /\ pc' = "idle"
                    /\ UNCHANGED <<candidate, generated_sql>>
               ELSE /\ candidate' = g.sql
                    /\ generated_sql' =
                          IF ~is_safe_sql(g.sql) THEN fallback_sql(prompt) ELSE g.sql
                    /\ pc' = "execute"
                    /\ UNCHANGED crashed
    /\ UNCHANGED <<LLM_PROVIDER, csv_file, messages, prompt, executed, fn, fn_arg,
                   fn_ret>>

\* result_msg that stores the text run_sql handed to the executor
result_msg_rewritten(content, sql, df) ==
    [role      |-> "assistant",
     content   |-> content,
     sql       |-> add_limit(sql),
     dataframe |-> df,
     summary   |-> summarize_result(df)]

\* the assistant turn of a result with rows
result_msg(content, sql, df) ==
    [role      |-> "assistant",
     content   |-> content,
     sql       |-> sql,
     dataframe |-> df,
     summary   |-> summarize_result(df)]

\* ExecuteFirst whose except branch gives up at once, without the retry
ExecuteFirst_no_retry ==
    /\ pc = "execute"
    /\ \E o \in ExecOutcomes :
        \E r \in {run_sql(generated_sql, o)} :
            /\ executed' = Append(executed, [query |-> r.query, raised |-> r.raised,
                                         rows |-> r.df.rows])
            /\ IF r.raised
               THEN /\ st_errors' = Append(st_errors, ERR_EXEC)
                    /\ messages' = Append(messages,
                          [role |-> "assistant", content |-> CONTENT_SYSTEM_ERROR])
               ELSE /\ messages' = Append(messages,
                          IF empty(r.df)
                          THEN [role |-> "assistant", content |-> CONTENT_EMPTY]
                          ELSE result_msg(CONTENT_DONE, generated_sql, r.df))
                    /\ UNCHANGED st_errors
    /\ pc' = "idle"
    /\ UNCHANGED <<LLM_PROVIDER, csv_file, prompt, completion, candidate,
                   generated_sql, crashed, fn, fn_arg, fn_ret>>

\* ExecuteFirst that takes a result without rows for a failed execution and
\* goes on with the retry
ExecuteFirst_retry_on_empty ==
    /\ pc = "execute"
    /\ \E o \in ExecOutcomes :
        \E r \in {run_sql(generated_sql, o)} :
            /\ executed' = Append(executed, [query |-> r.query, raised |-> r.raised,
                                         rows |-> r.df.rows])
            /\ IF r.raised \/ empty(r.df)
               THEN /\ st_errors' = Append(st_errors, ERR_EXEC)
                    /\ pc' = "retry"
                    /\ UNCHANGED messages
               ELSE /\ messages' = Append(messages,
                          result_msg(CONTENT_DONE, generated_sql, r.df))
                    /\ pc' = "idle"
                    /\ UNCHANGED st_errors
    /\ UNCHANGED <<LLM_PROVIDER, csv_file, prompt, completion, candidate,
                   generated_sql, crashed, fn, fn_arg, fn_ret>>

\* the outer try block: run_sql(con, generated_sql) and the assistant turn of
\* a run whose first execution does not raise
ExecuteFirst ==
    /\ pc = "execute"
    /\ \E o \in ExecOutcomes :
        \E r \in {run_sql(generated_sql, o)} :
            /\ executed' = Append(executed, [query |-> r.query, raised |-> r.raised,
                                         rows |-> r.df.rows])
            /\ IF r.raised
               THEN /\ st_errors' = Append(st_errors, ERR_EXEC)
                    /\ pc' = "retry"
                    /\ UNCHANGED messages
               ELSE /\ messages' = Append(messages,
                          IF empty(r.df)
                          THEN [role |-> "assistant", content |-> CONTENT_EMPTY]
                          ELSE result_msg(CONTENT_DONE, generated_sql, r.df))
                    /\ pc' = "idle"
                    /\ UNCHANGED st_errors
    /\ UNCHANGED <<LLM_PROVIDER, csv_file, prompt, completion, candidate,
                   generated_sql, crashed, fn, fn_arg, fn_ret>>

\* RetryFallback that puts the assistant turn in the place of the last turn
\* of the log
RetryFallback_overwrites ==
    /\ pc = "retry"
    /\ \E o \in ExecOutcomes :
        \E fallback_query \in {fallback_sql(prompt)} :
        \E r \in {run_sql(fallback_query, o)} :
            /\ executed' = Append(executed, [query |-> r.query, raised |-> r.raised,
                                         rows |-> r.df.rows])
            /\ IF r.raised
               THEN /\ st_errors' = Append(st_errors, ERR_FALLBACK)
                    /\ messages' = [messages EXCEPT ![Len(messages)] =
                          [role |-> "assistant", content |-> CONTENT_SYSTEM_ERROR]]
               ELSE /\ messages' = [messages EXCEPT ![Len(messages)] =
                          IF ~empty(r.df)
                          THEN result_msg(CONTENT_FALLBACK, fallback_query, r.df)
                          ELSE [role |-> "assistant", content |-> CONTENT_NO_RESULT]]
                    /\ UNCHANGED st_errors
    /\ pc' = "idle"
    /\ UNCHANGED <<LLM_PROVIDER, csv_file, prompt, completion, candidate,
                   generated_sql, crashed, fn, fn_arg, fn_ret>>

\* the except branch: one more run_sql with fallback_sql(prompt), and the
\* assistant turn of the run
RetryFallback ==
    /\ pc = "retry"
    /\ \E o \in ExecOutcomes :
        \E fallback_query \in {fallback_sql(prompt)} :
        \E r \in {run_sql(fallback_query, o)} :
            /\ executed' = Append(executed, [query |-> r.query, raised |-> r.raised,
                                         rows |-> r.df.rows])
            /\ IF r.raised
               THEN /\ st_errors' = Append(st_errors, ERR_FALLBACK)
                    /\ messages' = Append(messages,
                          [role |-> "assistant", content |-> CONTENT_SYSTEM_ERROR])
               ELSE /\ messages' = Append(messages,
                          IF ~empty(r.df)
                          THEN result_msg(CONTENT_FALLBACK, fallback_query, r.df)
                          ELSE [role |-> "assistant", content |-> CONTENT_NO_RESULT])
                    /\ UNCHANGED st_errors
    /\ pc' = "idle"
    /\ UNCHANGED <<LLM_PROVIDER, csv_file, prompt, completion, candidate,
                   generated_sql, crashed, fn, fn_arg, fn_ret>>

Next ==
    \/ LoadSalesData
    \/ Submit
    \/ GenerateSql
    \/ ExecuteFirst
    \/ RetryFallback

Spec == Init /\ [][Next]_vars

(***************************************************************************)
(* Runs of the pure functions on their own, as test_chatbot.py calls them: *)
(* the argument is any concatenation of at most MaxParts fragments.        *)
(***************************************************************************)
Parts ==
    {<<"s", "e", "l", "e", "c", "t">>,
     <<"S", "E", "L", "E", "C", "T">>,
     <<" ">>,
     <<"\n">>,
     <<" ", "*", " ", "f", "r", "o", "m", " ", "s", "a", "l", "e", "s">>,
     <<"I", "n", "s", "e", "r", "t">>,
     <<"U", "P", "D", "A", "T", "E">>,
     <<"d", "e", "l", "e", "t", "e">>,
     <<"D", "r", "o", "p">>,
     <<"A", "L", "T", "E", "R">>,
     <<"c", "r", "e", "a", "t", "e", "d", "_", "a", "t">>,
     <<"R", "e", "p", "l", "a", "c", "e">>,
     <<"a", "t", "t", "a", "c", "h">>,
     <<"C", "O", "P", "Y">>,
     <<"p", "r", "a", "g", "m", "a">>,
     <<"d", "e", "s", "c", "r", "i", "p", "t", "i", "o", "n">>,
     <<"r", "e", "c", "a", "l", "l">>,
     <<";">>,
     <<" ", "L", "I", "M", "I", "T", " ", "1", "0">>,
     <<" ", "u", "n", "l", "i", "m", "i", "t", "e", "d">>,
     <<"m", "o", "n", "t", "h">>,
     <<"C", "a", "t", "e", "g", "o", "r", "y">>,
     <<"C", "H", "A", "N", "N", "E", "L">>,
     <<"r", "e", "g", "i", "o", "n">>,
     <<"U+6708">>,
     <<"U+30AB", "U+30C6", "U+30B4", "U+30EA">>,
     <<"U+30C1", "U+30E3", "U+30CD", "U+30EB">>,
     <<"U+5730", "U+57DF">>,
     <<"h", "e", "l", "l", "o">>}

RECURSIVE Concats(_)
Concats(n) ==
    IF n = 0 THEN {<<>>}
    ELSE LET shorter == Concats(n - 1)
         IN  shorter \cup {a \o b : a \in shorter, b \in Parts}

FnInputs == Concats(MaxParts)

\* the language tags of a fenced completion: none, sql, and other spellings
FenceTags ==
    {<<>>, <<"s", "q", "l">>, <<"S", "Q", "L">>, <<"S", "q", "l">>}

\* a completion that is one query inside a Markdown code fence
fenced(lead, tag, gap, query, tail) ==
    lead \o FENCE \o tag \o gap \o query \o tail \o FENCE

FenceLayouts ==
    [lead : {<<>>, <<" ">>},
     gap  : {<<"\n">>, <<" ", "\n">>},
     tail : {<<>>, <<"\n">>}]

\* the queries inside the fence: one line, and two lines
QUERY_ALL ==
    <<"S", "E", "L", "E", "C", "T", " ", "*", " ", "F", "R", "O", "M", " ", "s", "a",
    "l", "e", "s">>

QUERY_BY_REGION ==
    <<"S", "E", "L", "E", "C", "T", " ", "r", "e", "g", "i", "o", "n", ",", " ", "S",
    "U", "M", "(", "u", "n", "i", "t", "s", ")", " ", "A", "S", " ", "t", "o", "t",
    "a", "l", "_", "u", "n", "i", "t", "s", "\n", "F", "R", "O", "M", " ", "s", "a",
    "l", "e", "s", " ", "G", "R", "O", "U", "P", " ", "B", "Y", " ", "r", "e", "g",
    "i", "o", "n">>

FencedQueries == {QUERY_ALL, QUERY_BY_REGION, FALLBACK_TOTAL}

FencedResponses ==
    {fenced(l.lead, tag, l.gap, q, l.tail) :
        l \in FenceLayouts, tag \in FenceTags, q \in FencedQueries}

FnInit ==
    /\ LLM_PROVIDER = "openai"
    /\ csv_file = [exists |-> FALSE, readable |-> FALSE, columns |-> {}]
    /\ messages = <<>>
    /\ pc = "fn"
    /\ prompt = <<>>
    /\ completion = NOT_CALLED
    /\ candidate = <<>>
    /\ generated_sql = <<>>
    /\ executed = <<>>
    /\ st_errors = <<>>
    /\ crashed = FALSE
    /\ fn = "none"
    /\ fn_arg \in FnInputs \cup FencedResponses
    /\ fn_ret = <<>>

FnUnchanged ==
    UNCHANGED <<LLM_PROVIDER, csv_file, messages, pc, prompt, completion, candidate,
                generated_sql, executed, st_errors, crashed, fn_arg>>

CallIsSafeSql ==
    /\ fn = "none"
    /\ fn' = "is_safe_sql"
    /\ fn_ret' = is_safe_sql(fn_arg)
    /\ FnUnchanged

CallFallbackSql ==
    /\ fn = "none"
    /\ fn' = "fallback_sql"
    /\ fn_ret' = fallback_sql(fn_arg)
    /\ FnUnchanged

\* run_sql up to the call of the executor
CallAddLimit ==
    /\ fn = "none"
    /\ fn' = "run_sql"
    /\ fn_ret' = add_limit(fn_arg)
    /\ FnUnchanged

\* generate_sql when the completion call returns the text fn_arg
CallGenerateSql ==
    /\ fn = "none"
    /\ fn' = "generate_sql"
    /\ fn_ret' = generate_sql("openai", [kind |-> "content", content |-> fn_arg],
                              PROMPT_OTHER)
    /\ FnUnchanged

FnNext ==
    \/ CallGenerateSql
    \/ CallIsSafeSql
    \/ CallFallbackSql
    \/ CallAddLimit

FnSpec == FnInit /\ [][FnNext]_vars

(***************************************************************************)
(* Runs of auto_chart and summarize_result on their own, as                *)
(* test_updated_charts.py and test_chatbot.py call them on the result of a *)
(* query: the argument is a DataFrame of at most MaxCols columns.          *)
(***************************************************************************)
DfColumns ==
    {COL_MONTH, COL_CATEGORY, COL_REGION, COL_SALES_CHANNEL, COL_TOTAL_REVENUE,
     COL_TOTAL_UNITS, COL_COUNT, COL_UNIT_PRICE, COL_MIXED_CASE}

\* the lists of at most n distinct columns
RECURSIVE ColumnLists(_)
ColumnLists(n) ==
    IF n = 0 THEN {<<>>}
    ELSE LET shorter == ColumnLists(n - 1)
         IN  shorter \cup {Append(cols, c) : cols \in shorter, c \in DfColumns}

\* the rows of the results: none, a few, exactly as many as the summary
\* reads, and more
DfTables ==
    {[rows |-> 0, base |-> 0, step |-> 0],
     [rows |-> 2, base |-> 1, step |-> 1],
     [rows |-> 50, base |-> 3, step |-> 0],
     [rows |-> 51, base |-> 1, step |-> 1]}

DataFrames ==
    {[columns |-> cols, rows |-> tb.rows, base |-> tb.base, step |-> tb.step] :
        cols \in {c \in ColumnLists(MaxCols) :
                     c # <<>> /\ Cardinality(Range(c)) = Len(c)},
        tb \in DfTables}

DfInit ==
    /\ LLM_PROVIDER = "openai"
    /\ csv_file = [exists |-> FALSE, readable |-> FALSE, columns |-> {}]
    /\ messages = <<>>
    /\ pc = "df"
    /\ prompt = <<>>
    /\ completion = NOT_CALLED
    /\ candidate = <<>>
    /\ generated_sql = <<>>
    /\ executed = <<>>
    /\ st_errors = <<>>
    /\ crashed = FALSE
    /\ fn = "none"
    /\ fn_arg \in DataFrames
    /\ fn_ret = <<>>

CallAutoChart ==
    /\ fn = "none"
    /\ fn' = "auto_chart"
    /\ fn_ret' = auto_chart(fn_arg)
    /\ FnUnchanged

CallSummarizeResult ==
    /\ fn = "none"
    /\ fn' = "summarize_result"
    /\ fn_ret' = summarize_result(fn_arg)
    /\ FnUnchanged

DfNext ==
    \/ CallAutoChart
    \/ CallSummarizeResult

DfSpec == DfInit /\ [][DfNext]_vars

(***************************************************************************)
(* The claims.                                                             *)
(***************************************************************************)

\* the denylist as claim C1 states it
C1_Denylist ==
    {<<"i", "n", "s", "e", "r", "t">>,
     <<"u", "p", "d", "a", "t", "e">>,
     <<"d", "e", "l", "e", "t", "e">>,
     <<"d", "r", "o", "p">>,
     <<"a", "l", "t", "e", "r">>,
     <<"c", "r", "e", "a", "t", "e">>,
     <<"r", "e", "p", "l", "a", "c", "e">>,
     <<"a", "t", "t", "a", "c", "h">>,
     <<"c", "o", "p", "y">>,
     <<"p", "r", "a", "g", "m", "a">>,
     <<"s", "c", "r", "i", "p", "t">>,
     <<"c", "a", "l", "l">>,
     <<";">>}

\* C1: is_safe_sql(s) is true exactly when the lower-cased, trimmed s begins
\* with select and the lower-cased s contains none of the denylisted
\* substrings; a denylisted token in any letter case, also inside an
\* identifier such as created_at, and a semicolon anywhere, are rejected.
C1_SafeExactlyWhenSelectAndNoDenylisted ==
    fn = "is_safe_sql" =>
        fn_ret = (/\ startswith(strip(lower(fn_arg)), KW_SELECT)
                  /\ \A kw \in C1_Denylist : ~contains(kw, lower(fn_arg)))

\* an accepted query written in upper case after leading whitespace
C1_Witness ==
    /\ fn = "is_safe_sql"
    /\ fn_ret = TRUE
    /\ fn_arg # lower(fn_arg)
    /\ fn_arg # strip(fn_arg)

\* the keyword groups as claim C5 states them
C5_TemporalOrCategory ==
    {<<"U+6708">>,
     <<"U+30AB", "U+30C6", "U+30B4", "U+30EA">>,
     <<"c", "a", "t", "e", "g", "o", "r", "y">>,
     <<"m", "o", "n", "t", "h">>}

C5_Channel ==
    {<<"U+30C1", "U+30E3", "U+30CD", "U+30EB">>,
     <<"c", "h", "a", "n", "n", "e", "l">>}

C5_Region ==
    {<<"U+5730", "U+57DF">>,
     <<"r", "e", "g", "i", "o", "n">>}

C5_Matches(group, message) ==
    \E word \in group : contains(word, lower(message))

\* C5: fallback_sql tests the lower-cased message against the keyword groups
\* in a fixed order and the first match wins: a temporal/category keyword
\* gives the month-by-category query, whatever else matches; otherwise a
\* channel keyword gives the by-channel query, also when a region keyword
\* matches; otherwise a region keyword gives the by-region query; otherwise the
\* grand-total query.
C5_FirstMatchingGroupWins ==
    fn = "fallback_sql" =>
        /\ C5_Matches(C5_TemporalOrCategory, fn_arg)
              => fn_ret = FALLBACK_MONTH_CATEGORY
        /\ (~C5_Matches(C5_TemporalOrCategory, fn_arg)
              /\ C5_Matches(C5_Channel, fn_arg))
              => fn_ret = FALLBACK_CHANNEL
        /\ (~C5_Matches(C5_TemporalOrCategory, fn_arg)
              /\ ~C5_Matches(C5_Channel, fn_arg)
              /\ C5_Matches(C5_Region, fn_arg))
              => fn_ret = FALLBACK_REGION
        /\ (~C5_Matches(C5_TemporalOrCategory, fn_arg)
              /\ ~C5_Matches(C5_Channel, fn_arg)
              /\ ~C5_Matches(C5_Region, fn_arg))
              => fn_ret = FALLBACK_TOTAL

\* a message with a channel keyword before a temporal keyword, not all in
\* lower case, resolved to the month-by-category query
C5_Witness ==
    /\ fn = "fallback_sql"
    /\ C5_Matches(C5_Channel, fn_arg)
    /\ C5_Matches(C5_TemporalOrCategory, fn_arg)
    /\ Len(fn_arg) > 7
    /\ C5_Matches(C5_Channel, SubSeq(fn_arg, 1, 7))
    /\ fn_arg # lower(fn_arg)
    /\ fn_ret = FALLBACK_MONTH_CATEGORY

\* C6: fallback_sql is total: for every message it returns, without raising,
\* one of the four pre-written queries, and the query it returns is accepted
\* by is_safe_sql.
C6_FallbackIsOneOfFourSafeQueries ==
    fn = "fallback_sql" =>
        /\ fn_ret \in {FALLBACK_MONTH_CATEGORY, FALLBACK_CHANNEL,
                       FALLBACK_REGION, FALLBACK_TOTAL}
        /\ is_safe_sql(fn_ret)

\* the grand-total query returned for a message that is itself an unsafe
\* statement
C6_Witness ==
    /\ fn = "fallback_sql"
    /\ ~is_safe_sql(fn_arg)
    /\ contains(SEMICOLON, fn_arg)
    /\ fn_ret = FALLBACK_TOTAL
    /\ is_safe_sql(fn_ret)

\* the script run has passed the safety check
C_Generated == pc \in {"execute", "retry"} \/ executed # <<>>

\* the script run has ended with its assistant turn
C_Answered == pc = "idle" /\ executed # <<>>

\* the assistant turn of the run that has just ended
C_Answer == messages[Len(messages)]

\* C2: if is_safe_sql rejects the candidate returned by generate_sql, the
\* pipeline replaces it with fallback_sql(message) before execution; so every
\* query string handed to the executor, in the first attempt and in the retry,
\* with the row-limit clause appended, is one that is_safe_sql accepts.
C2_OnlySafeQueriesAreExecuted ==
    /\ (C_Generated /\ ~is_safe_sql(candidate))
          => generated_sql = fallback_sql(prompt)
    /\ \A i \in 1..Len(executed) : is_safe_sql(executed[i].query)

\* a run whose candidate was rejected and that executed two queries
C2_Witness ==
    /\ C_Answered
    /\ ~is_safe_sql(candidate)
    /\ Len(executed) = 2
    /\ \A i \in 1..2 : is_safe_sql(executed[i].query)

C_Outcome(m) ==
    IF "dataframe" \in DOMAIN m THEN "Result"
    ELSE IF m.content \in {CONTENT_EMPTY, CONTENT_NO_RESULT} THEN "Empty"
    ELSE IF m.content = CONTENT_SYSTEM_ERROR THEN "Failure"
    ELSE "none"

\* C4: whatever the completion capability and the executor do, no error
\* leaves the pipeline: every run ends with one assistant turn that is a
\* Result, an Empty or a Failure, and after a Failure the session accepts the
\* next user message.
C4_NoErrorEscapes ==
    /\ ~crashed
    /\ pc = "idle" =>
          /\ Len(messages) % 2 = 0
          /\ \A i \in 1..Len(messages) :
                IF i % 2 = 1
                THEN messages[i].role = "user"
                ELSE /\ messages[i].role = "assistant"
                     /\ C_Outcome(messages[i]) \in {"Result", "Empty", "Failure"}
    /\ (C_Answered /\ C_Outcome(C_Answer) = "Failure"
            /\ Len(messages) < 2 * MaxTurns)
          => ENABLED Submit

\* a session whose first message ended in Failure and whose second message
\* ended in a Result
C4_Witness ==
    /\ pc = "idle"
    /\ Len(messages) = 4
    /\ C_Outcome(messages[2]) = "Failure"
    /\ C_Outcome(messages[4]) = "Result"

\* the row-limit ceiling of the claims
CEILING == 5000

\* the i-th query of the run as it was before run_sql rewrote it
C_Submitted(i) == IF i = 1 THEN generated_sql ELSE fallback_sql(prompt)

\* C7: every candidate query that lacks a row-limit clause is executed with an
\* appended row bound that does not exceed 5000, every query that already
\* contains a row-limit clause is executed unmodified, and the rewrite applied
\* to a rewritten query changes nothing.
C7_RowLimitRewrite ==
    \A i \in 1..Len(executed) :
        /\ ~has_limit_clause(C_Submitted(i))
              => /\ executed[i].query # C_Submitted(i)
                 /\ startswith(executed[i].query, C_Submitted(i))
                 /\ has_limit_clause(executed[i].query)
                 /\ limit_value(executed[i].query) <= CEILING
        /\ has_limit_clause(C_Submitted(i))
              => executed[i].query = C_Submitted(i)
        /\ add_limit(executed[i].query) = executed[i].query

\* C8: no query executed by the pipeline, generated or taken from the fallback
\* bank, returns more than 5000 rows.
C8_NoResultAboveCeiling ==
    \A i \in 1..Len(messages) :
        "dataframe" \in DOMAIN messages[i]
            => messages[i].dataframe.rows <= CEILING

\* C9: when the completion capability fails (the provider raises, the
\* response is malformed, no supported provider), generate_sql does not
\* propagate the error and returns fallback_sql(message) for the same message.
C9_GenerationFailureReturnsFallback ==
    /\ ~crashed
    /\ (C_Generated /\ completion.kind # "content")
          => candidate = fallback_sql(prompt)

\* a response without choices, answered with the month-by-category query
C9_Witness ==
    /\ C_Generated
    /\ completion.kind = "no_choices"
    /\ candidate = FALLBACK_MONTH_CATEGORY

\* only the generation failed in the run that has ended
C10_OnlyGenerationFailed ==
    /\ C_Answered
    /\ completion.kind # "content"
    /\ \A i \in 1..Len(executed) : ~executed[i].raised

C11_ZeroRows(i) == ~executed[i].raised /\ executed[i].rows = 0

\* C11: a successful execution that returns zero rows ends the run in the
\* Empty outcome, which is not a Failure: the turn carries no query, no table
\* and no summary, no further query is executed and no error is reported for
\* that execution, in the first attempt (then the run has no retry at all) and
\* in the retry.
C11_ZeroRowsGiveEmpty ==
    \A i \in DOMAIN executed :
        C11_ZeroRows(i) =>
            /\ i = Len(executed)
            /\ pc = "idle"
            /\ C_Outcome(C_Answer) = "Empty"
            /\ C_Answer.content # CONTENT_SYSTEM_ERROR
            /\ DOMAIN C_Answer = {"role", "content"}
            /\ ERR_FALLBACK \notin Range(st_errors)
            /\ (i = 1 => ERR_EXEC \notin Range(st_errors))

\* a retry query that returned zero rows
C11_Witness ==
    /\ Len(executed) = 2
    /\ executed[1].raised
    /\ C11_ZeroRows(2)
    /\ C_Outcome(C_Answer) = "Empty"

\* the completion call of the run failed, or no provider could be called
C12_GenerationFailed == C_Generated /\ completion.kind # "content"

\* C12: for a message that matches none of the fallback keywords, when the
\* generation fails and the executor succeeds, the run executes the grand-total
\* fallback query exactly once and ends in a Result that carries that query,
\* the rows the executor returned and a summary of them.
C12_GrandTotalEndToEnd ==
    (/\ C_Answered
     /\ C12_GenerationFailed
     /\ ~C5_Matches(C5_TemporalOrCategory \cup C5_Channel \cup C5_Region, prompt)
     /\ ~executed[1].raised)
        => /\ Len(executed) = 1
           /\ executed[1].query = add_limit(FALLBACK_TOTAL)
           /\ C_Outcome(C_Answer) = "Result"
           /\ C_Answer.sql = FALLBACK_TOTAL
           /\ C_Answer.dataframe.columns = <<COL_TOTAL_REVENUE>>
           /\ C_Answer.dataframe.rows = executed[1].rows
           /\ C_Answer.dataframe.rows > 0
           /\ C_Answer.summary.found
           /\ C_Answer.summary.total_rows = executed[1].rows

\* the provider raised for the message hello and the grand total was shown
C12_Witness ==
    /\ C_Answered
    /\ prompt = PROMPT_OTHER
    /\ completion.kind = "api_error"
    /\ Len(executed) = 1
    /\ C_Outcome(C_Answer) = "Result"
    /\ C_Answer.sql = FALLBACK_TOTAL

\* the dataset file is absent, or it is a table that lacks a required column
C13_DatasetInvalid ==
    \/ ~csv_file.exists
    \/ /\ csv_file.readable
       /\ \E c \in Range(REQUIRED_COLUMNS) : c \notin csv_file.columns

\* C13: when the dataset file is absent or a required column is missing, the
\* application stops during loading with an error shown: it never accepts or
\* processes a user message and never executes a query.
C13_StartupFatal ==
    C13_DatasetInvalid =>
        /\ pc \in {"start", "stopped"}
        /\ pc = "stopped" => st_errors # <<>>
        /\ ~ENABLED Submit
        /\ messages = <<>>
        /\ prompt = <<>>
        /\ completion = NOT_CALLED
        /\ executed = <<>>

\* a file without the revenue column has stopped the application
C13_Witness ==
    /\ pc = "stopped"
    /\ csv_file.exists
    /\ csv_file.readable
    /\ COL_REVENUE \notin csv_file.columns
    /\ ERR_MISSING_COLUMNS \in Range(st_errors)

\* the chart intents
C_GroupedLine ==
    [kind |-> "line", x |-> COL_MONTH, y |-> COL_TOTAL_REVENUE,
     color |-> COL_CATEGORY]

C_Bar(x, y) == [kind |-> "bar", x |-> x, y |-> y, color |-> NONE]

C_Line(y) == [kind |-> "line", x |-> COL_MONTH, y |-> y, color |-> NONE]

\* the known dimensions and the known measures as the claims list them
C_Dimensions ==
    {COL_CATEGORY, COL_SALES_CHANNEL, COL_REGION, COL_CUSTOMER_SEGMENT}

C_Measures ==
    {COL_TOTAL_REVENUE, COL_TOTAL_UNITS, COL_REVENUE, COL_UNITS, COL_COUNT}

\* auto_chart was applied to a result with rows
C_Charted == fn = "auto_chart" /\ fn_arg.rows > 0

\* the three rules as the specification states them
C_Rule1(df) ==
    Range(df.columns) = {COL_MONTH, COL_CATEGORY, COL_TOTAL_REVENUE}

C_Rule2(df) ==
    /\ Len(df.columns) = 2
    /\ df.columns[1] \in C_Dimensions
    /\ df.columns[2] \in C_Measures

C_Rule3(df) ==
    /\ COL_MONTH \in Range(df.columns)
    /\ Cardinality(Range(df.columns) \cap C_Measures) = 1

\* C14: a result whose columns are exactly month, category and total_revenue,
\* in any order, is drawn as the line chart grouped by category; a result that
\* matches rule 1 and a later rule too is drawn as the grouped line chart.
C14_GroupedLineFirst ==
    C_Charted =>
        /\ C_Rule1(fn_arg) => fn_ret = C_GroupedLine
        /\ (C_Rule1(fn_arg) /\ (C_Rule2(fn_arg) \/ C_Rule3(fn_arg)))
              => fn_ret = C_GroupedLine

\* the three columns in another order, matched by rule 3 as well
C14_Witness ==
    /\ C_Charted
    /\ fn_arg.columns = <<COL_TOTAL_REVENUE, COL_MONTH, COL_CATEGORY>>
    /\ C_Rule3(fn_arg)
    /\ fn_ret = C_GroupedLine

\* C15: a result with exactly two columns is drawn as a bar chart, x the
\* first column and y the second, if and only if the first column is a known
\* dimension and the second a known measure.
C15_BarIffDimensionThenMeasure ==
    (C_Charted /\ Len(fn_arg.columns) = 2) =>
        /\ C_Rule2(fn_arg)
              => fn_ret = C_Bar(fn_arg.columns[1], fn_arg.columns[2])
        /\ ~C_Rule2(fn_arg) => fn_ret.kind # "bar"

\* units by region drawn as bars
C15_Witness ==
    /\ C_Charted
    /\ fn_arg.columns = <<COL_REGION, COL_TOTAL_UNITS>>
    /\ fn_ret = C_Bar(COL_REGION, COL_TOTAL_UNITS)

\* C16 as claimed: when rules 1 and 2 do not match, a result with month and
\* exactly one known measure is drawn as a line chart of that measure by
\* month, and a result that matches none of the three rules gets no chart.
C16_LineForExactlyOneMeasure ==
    (C_Charted /\ ~C_Rule1(fn_arg) /\ ~C_Rule2(fn_arg)) =>
        /\ C_Rule3(fn_arg) =>
              \E y \in Range(fn_arg.columns) \cap C_Measures : fn_ret = C_Line(y)
        /\ fn_arg.columns = <<COL_MONTH, COL_TOTAL_REVENUE>>
              => fn_ret = C_Line(COL_TOTAL_REVENUE)
        /\ ~C_Rule3(fn_arg) => fn_ret = NO_CHART

\* the order in which rule 3 looks for a measure
C16_Priority ==
    <<COL_TOTAL_REVENUE, COL_TOTAL_UNITS, COL_REVENUE, COL_UNITS, COL_COUNT>>

\* the first measure of the priority order among the columns
C16_FirstMeasure(colset) ==
    LET k == CHOOSE i \in DOMAIN C16_Priority :
                /\ C16_Priority[i] \in colset
                /\ \A j \in 1..(i - 1) : C16_Priority[j] \notin colset
    IN  C16_Priority[k]

\* C16 as amended: when the columns do not include all of month, category
\* and total_revenue and rule 2 does not match, a result with month and at
\* least one known measure is drawn as a line chart by month of the first
\* measure present in the order total_revenue, total_units, revenue, units,
\* count; every other result gets no chart.
C16_LineForFirstMeasure ==
    (/\ C_Charted
     /\ ~({COL_MONTH, COL_CATEGORY, COL_TOTAL_REVENUE}
             \subseteq Range(fn_arg.columns))
     /\ ~C_Rule2(fn_arg)) =>
        IF /\ COL_MONTH \in Range(fn_arg.columns)
           /\ Range(fn_arg.columns) \cap C_Measures # {}
        THEN fn_ret = C_Line(C16_FirstMeasure(Range(fn_arg.columns)))
        ELSE fn_ret = NO_CHART

\* month with two measures: a line chart of the first one in the order
C16_Witness ==
    /\ C_Charted
    /\ fn_arg.columns = <<COL_MONTH, COL_COUNT, COL_TOTAL_UNITS>>
    /\ fn_ret = C_Line(COL_TOTAL_UNITS)

\* summarize_result was applied
C_Summarized == fn = "summarize_result"

\* C17: summarize_result returns the fixed no-results text for an empty
\* result; for a result with rows it reports the number of rows of the whole
\* result, and it adds the note about the first 50 rows exactly when the
\* result has more than 50 rows.
C17_CountAndTruncationNote ==
    C_Summarized =>
        /\ fn_arg.rows = 0 => fn_ret = NO_RESULTS
        /\ fn_arg.rows > 0 =>
              /\ fn_ret.found
              /\ fn_ret.total_rows = fn_arg.rows
              /\ fn_ret.top = (IF fn_arg.rows > 50 THEN <<50>> ELSE <<>>)

\* 51 rows reported, with the note
C17_Witness ==
    /\ C_Summarized
    /\ fn_arg.rows = 51
    /\ fn_ret.total_rows = 51
    /\ fn_ret.top = <<50>>

\* the numeric columns of a result, in the order of the result
C18_Numeric(df) == SelectSeq(df.columns, LAMBDA c : c \in NUMERIC_COLUMNS)

\* the label the claim gives the statistics of a column
C18_Style(name) ==
    IF contains(COL_REVENUE, lower(name)) THEN "currency"
    ELSE IF contains(COL_UNITS, lower(name)) THEN "count"
    ELSE "unlabeled"

\* C18: for every result with rows and at least one numeric column the
\* summary reports the sum and the mean of the first numeric column, in
\* currency style when its name contains revenue, in count style when it
\* contains units, unlabeled for any other name: never omitted.
C18_StatisticsNeverOmitted ==
    (C_Summarized /\ fn_arg.rows > 0 /\ C18_Numeric(fn_arg) # <<>>) =>
        /\ Len(fn_ret.stats) = 1
        /\ fn_ret.stats[1].style = C18_Style(C18_Numeric(fn_arg)[1])

\* the sum of the first n cells of a numeric column
C19_Sum(df, n) == n * df.base + df.step * ((n * (n - 1)) \div 2)

\* C19 as claimed: the sum and the mean of the summary are taken over all
\* the rows of the result, also when it has more than 50 rows.
C19_StatisticsOverAllRows ==
    (C_Summarized /\ fn_ret.stats # <<>>) =>
        /\ fn_ret.stats[1].total = C19_Sum(fn_arg, fn_arg.rows)
        /\ fn_ret.stats[1].avg =
              [sum |-> C19_Sum(fn_arg, fn_arg.rows), count |-> fn_arg.rows]

\* the number of rows the statistics read
C19_Read(df) == IF df.rows > 50 THEN 50 ELSE df.rows

\* C19 as amended: the sum and the mean of the summary are taken over the
\* first 50 rows of the result; they are the sum and the mean of the whole
\* result exactly when it has at most 50 rows.
C19_StatisticsOverFirstFifty ==
    (C_Summarized /\ fn_ret.stats # <<>>) =>
        /\ fn_ret.stats[1].total = C19_Sum(fn_arg, C19_Read(fn_arg))
        /\ fn_ret.stats[1].avg =
              [sum |-> C19_Sum(fn_arg, C19_Read(fn_arg)),
               count |-> C19_Read(fn_arg)]
        /\ fn_arg.rows <= 50
              => fn_ret.stats[1].total = C19_Sum(fn_arg, fn_arg.rows)

\* 51 rows with the cells 1, 2, ..., 51: the summary reports 1275, not 1326
C19_Witness ==
    /\ C_Summarized
    /\ fn_arg.rows = 51
    /\ fn_arg.step = 1
    /\ fn_ret.stats # <<>>
    /\ fn_ret.stats[1].total = 1275
    /\ C19_Sum(fn_arg, fn_arg.rows) = 1326

\* the run has ended in a Result
C20_Result == C_Answered /\ C_Outcome(C_Answer) = "Result"

\* C20 as claimed: the query attached to a Result is the query that was
\* executed, after the row-limit rewrite, in the first attempt and in the
\* retry.
C20_AttachedQueryIsExecuted ==
    C20_Result => C_Answer.sql = executed[Len(executed)].query

\* C20 as amended: the query attached to a Result is the query as it was
\* before the row-limit rewrite, the candidate in the first attempt and the
\* fallback query in the retry; the query executed is that text with
\* " LIMIT 5000" appended when the text does not contain "limit", and only
\* otherwise the attached text itself.
C20_AttachedQueryIsBeforeRewrite ==
    C20_Result =>
        /\ C_Answer.sql = C_Submitted(Len(executed))
        /\ executed[Len(executed)].query =
              (IF contains(KW_LIMIT, lower(C_Answer.sql))
               THEN C_Answer.sql
               ELSE rstrip_char(C_Answer.sql, ";") \o LIMIT_SUFFIX)

\* a Result of the retry: the by-month query attached, executed with the
\* appended row limit
C20_Witness ==
    /\ C20_Result
    /\ Len(executed) = 2
    /\ C_Answer.sql = FALLBACK_MONTH_CATEGORY
    /\ executed[2].query = FALLBACK_MONTH_CATEGORY \o LIMIT_SUFFIX

\* the log alternates user and assistant turns, from a user turn on
C21_Alternates ==
    \A i \in 1..Len(messages) :
        messages[i].role = (IF i % 2 = 1 THEN "user" ELSE "assistant")

\* between two runs the log has one assistant turn for each user turn; during
\* the run of a message its user turn is the last turn of the log
C21_OneAnswerPerMessage ==
    /\ C21_Alternates
    /\ pc \in {"start", "stopped", "idle"} => Len(messages) % 2 = 0
    /\ pc \in {"generate", "execute", "retry"} =>
          /\ Len(messages) % 2 = 1
          /\ messages[Len(messages)] = [role |-> "user", content |-> prompt]

\* a step leaves the turns of the log as they are and appends at most one
\* turn: the user turn when a message is accepted, the assistant turn when
\* its run ends
C21_StepAppends ==
    /\ Len(messages') \in {Len(messages), Len(messages) + 1}
    /\ SubSeq(messages', 1, Len(messages)) = messages
    /\ Len(messages') = Len(messages) + 1 =>
          IF pc = "idle"
          THEN pc' = "generate" /\ messages'[Len(messages')].role = "user"
          ELSE /\ pc \in {"execute", "retry"}
               /\ pc' = "idle"
               /\ messages'[Len(messages')].role = "assistant"
               /\ C_Outcome(messages'[Len(messages')])
                     \in {"Result", "Empty", "Failure"}

\* C21: the conversation log is append-only: no step modifies or removes a
\* turn, and every processed user message appends exactly one user turn and
\* then exactly one assistant turn, whatever the outcome, so that after any
\* sequence of interactions the log alternates user and assistant turns and
\* has even length.
C21_AppendOnlyLog == []C21_OneAnswerPerMessage /\ [][C21_StepAppends]_vars

\* a session of two messages: an Empty, then a Result of the retry
C21_Witness ==
    /\ pc = "idle"
    /\ Len(messages) = 4
    /\ C_Outcome(messages[2]) = "Empty"
    /\ C_Outcome(messages[4]) = "Result"
    /\ Len(executed) = 2

\* generate_sql returned the bare query of every fenced completion whose
\* language tag is one of tags
C22_Stripped(tags) ==
    fn = "generate_sql" =>
        \A l \in FenceLayouts, tag \in tags, q \in FencedQueries :
            fn_arg = fenced(l.lead, tag, l.gap, q, l.tail) =>
                /\ ~fn_ret.raised
                /\ fn_ret.sql = q
                /\ ~contains(FENCE, fn_ret.sql)
                /\ tag # <<>> => ~startswith(fn_ret.sql, tag)

\* C22: for a completion that is a query wrapped in triple backticks with
\* an optional language tag (none, sql, or another tag such as SQL),
\* generate_sql returns the bare query text, without the backticks and
\* without the tag.
C22_FencesAreStripped == C22_Stripped(FenceTags)

====
